---- MODULE Spec2Model ----
(***************************************************************************)
(* Model of streamlit_app.py: the upload pipeline that normalises a table  *)
(* of occurrence records, validates its dates and draws the yearly counts, *)
(* and the two helper functions standardize_species and                    *)
(* extract_year_month.                                                     *)
(*                                                                         *)
(* Text is a sequence of one-character strings.  A table cell is a record  *)
(* [kind, s, n]: a missing value (NaN), a text (s) or a number (n).        *)
(***************************************************************************)
EXTENDS Integers, Sequences, FiniteSets, TLC

VARIABLES
    uploaded_file,  \* the table read from the uploaded CSV, or NoFile
    df,             \* the data frame: a sequence of rows, each a function column -> cell
    columns,        \* df.columns
    error,          \* the script's error flag
    yearly_counts,  \* NoTable, or the sequence of <<year, count>> rows
    out,            \* what the script has shown, in order
    exc,            \* the exception that ended the run, or "none"
    pc,             \* where the script run is
    name_in,        \* standardize_species: the argument
    name_out,       \* standardize_species(name_in)
    name_twice,     \* standardize_species(standardize_species(name_in))
    spc,            \* standardize_species: how often it was applied
    date_in,        \* extract_year_month: the argument
    ym_out,         \* extract_year_month(date_in)
    dpc             \* extract_year_month: whether it was applied

vars == <<uploaded_file, df, columns, error, yearly_counts, out, exc, pc,
          name_in, name_out, name_twice, spc, date_in, ym_out, dpc>>
pipeVars == <<uploaded_file, df, columns, error, yearly_counts, out, exc, pc>>
nameVars == <<name_in, name_out, name_twice, spc>>
dateVars == <<date_in, ym_out, dpc>>

-----------------------------------------------------------------------------
(* Bounds *)

MaxRows == 2
MaxNameLen == 4

-----------------------------------------------------------------------------
(* Cells and text *)

NaN == [kind |-> "nan", s |-> <<>>, n |-> 0]
Str(t) == [kind |-> "str", s |-> t, n |-> 0]
Num(k) == [kind |-> "num", s |-> <<>>, n |-> k]
notna(c) == c.kind # "nan"
isna(c) == c.kind = "nan"

None == 0 - 1
NoFile == <<"no file">>
NoTable == <<"no table">>

Whitespace == {" ", "\t"}
Digits == <<"0", "1", "2", "3", "4", "5", "6", "7", "8", "9">>
IsDigit(ch) == \E i \in 1..10 : Digits[i] = ch
DigitVal(ch) == (CHOOSE i \in 1..10 : Digits[i] = ch) - 1

Lowers == <<"a", "b", "x">>
Uppers == <<"A", "B", "X">>
IsLower(ch) == \E i \in 1..Len(Lowers) : Lowers[i] = ch
IsUpper(ch) == \E i \in 1..Len(Uppers) : Uppers[i] = ch
IsCased(ch) == IsLower(ch) \/ IsUpper(ch)
upper(ch) == IF IsLower(ch) THEN Uppers[CHOOSE i \in 1..Len(Lowers) : Lowers[i] = ch] ELSE ch
lower(ch) == IF IsUpper(ch) THEN Lowers[CHOOSE i \in 1..Len(Uppers) : Uppers[i] = ch] ELSE ch

RECURSIVE lstrip(_)
lstrip(t) == IF t # <<>> /\ Head(t) \in Whitespace THEN lstrip(Tail(t)) ELSE t

RECURSIVE rstrip(_)
rstrip(t) ==
    IF t # <<>> /\ t[Len(t)] \in Whitespace THEN rstrip(SubSeq(t, 1, Len(t) - 1)) ELSE t

strip(t) == rstrip(lstrip(t))

\* str.title(): a cased character is upper-cased when the character before it
\* is not cased (or there is none) and lower-cased otherwise.
title(t) ==
    [i \in 1..Len(t) |->
        IF i > 1 /\ IsCased(t[i - 1]) THEN lower(t[i]) ELSE upper(t[i])]

lstrip_title(t) == title(lstrip(t))

strip_title(t) == title(strip(t))

standardize_species(scientific_name) ==
    IF notna(scientific_name) THEN Str(strip_title(scientific_name.s)) ELSE scientific_name

-----------------------------------------------------------------------------
(* extract_year_month: datetime.strptime against the four formats *)

\* A format is its sequence of directives and literal characters.
formats == << <<"%Y", "-", "%m", "-", "%d">>,
              <<"%Y", "/", "%m", "/", "%d">>,
              <<"%Y", "%m", "%d">>,
              <<"%Y", ".", "%m", ".", "%d">> >>

formats_without_dots == << <<"%Y", "-", "%m", "-", "%d">>,
                           <<"%Y", "/", "%m", "/", "%d">>,
                           <<"%Y", "%m", "%d">> >>

At(t, i) == IF i >= 1 /\ i <= Len(t) THEN t[i] ELSE "end"
DigitAt(t, i) == IF IsDigit(At(t, i)) THEN DigitVal(At(t, i)) ELSE None

\* The alternatives of a directive's regular expression that match t at i, in
\* the order the expression lists them, each with its length and value.
\*   %Y  \d\d\d\d
\*   %m  1[0-2] | 0[1-9] | [1-9]
\*   %d  3[0-1] | [1-2]\d | 0[1-9] | [1-9] | " "[1-9]
Alternatives(t, i, tok) ==
    LET a == DigitAt(t, i)
        b == DigitAt(t, i + 1)
        two == [len |-> 2, val |-> 10 * a + b]
        one == [len |-> 1, val |-> a]
        pick(cands) == [j \in 1..Len(SelectSeq(cands, LAMBDA c : c[1])) |->
                            SelectSeq(cands, LAMBDA c : c[1])[j][2]]
    IN  CASE tok = "%Y" ->
                pick(<< <<\A j \in 0..3 : DigitAt(t, i + j) # None,
                          [len |-> 4,
                           val |-> 1000 * a + 100 * b + 10 * DigitAt(t, i + 2)
                                     + DigitAt(t, i + 3)]>> >>)
          [] tok = "%m" ->
                pick(<< <<a = 1 /\ b \in 0..2, two>>,
                        <<a = 0 /\ b \in 1..9, two>>,
                        <<a \in 1..9, one>> >>)
          [] tok = "%d" ->
                pick(<< <<a = 3 /\ b \in 0..1, two>>,
                        <<a \in 1..2 /\ b \in 0..9, two>>,
                        <<a = 0 /\ b \in 1..9, two>>,
                        <<a \in 1..9, one>>,
                        <<At(t, i) = " " /\ b \in 1..9, [len |-> 2, val |-> b]>> >>)
          [] OTHER ->
                pick(<< <<At(t, i) = tok, [len |-> 1, val |-> 0]>> >>)

NoMatch == [ok |-> FALSE, end |-> 0, Y |-> 0, m |-> 0, d |-> 0]

RECURSIVE re_match(_, _, _, _)
RECURSIVE re_first(_, _, _, _, _, _)

\* format_regex.match(data_string): the first match in the expression's
\* backtracking order, from position i and directive k on.
re_match(t, i, f, k) ==
    IF k > Len(f)
    THEN [ok |-> TRUE, end |-> i - 1, Y |-> 0, m |-> 0, d |-> 0]
    ELSE re_first(t, i, f, k, Alternatives(t, i, f[k]), 1)

re_first(t, i, f, k, alts, j) ==
    IF j > Len(alts)
    THEN NoMatch
    ELSE LET r == re_match(t, i + alts[j].len, f, k + 1)
         IN  IF r.ok
             THEN CASE f[k] = "%Y" -> [r EXCEPT !.Y = alts[j].val]
                    [] f[k] = "%m" -> [r EXCEPT !.m = alts[j].val]
                    [] f[k] = "%d" -> [r EXCEPT !.d = alts[j].val]
                    [] OTHER -> r
             ELSE re_first(t, i, f, k, alts, j + 1)

IsLeap(y) == (y % 4 = 0 /\ y % 100 # 0) \/ y % 400 = 0

DaysInMonth(y, m) ==
    CASE m \in {4, 6, 9, 11} -> 30
      [] m = 2 -> IF IsLeap(y) THEN 29 ELSE 28
      [] OTHER -> 31

\* datetime.strptime(data_string, fmt): the parsed date, or ok = FALSE where
\* it raises ValueError (no match, unconverted data, a date out of range).
strptime(t, f) ==
    LET found == re_match(t, 1, f, 1)
    IN  IF ~found.ok THEN NoMatch
        ELSE IF found.end # Len(t) THEN NoMatch
        ELSE IF found.Y < 1 \/ found.d > DaysInMonth(found.Y, found.m) THEN NoMatch
        ELSE found

RECURSIVE Decimal(_)
Decimal(k) ==
    IF k < 10 THEN <<Digits[k + 1]>> ELSE Decimal(k \div 10) \o <<Digits[(k % 10) + 1]>>

\* str(x) of a cell that is not missing
str(c) == IF c.kind = "str" THEN c.s ELSE Decimal(c.n)

RECURSIVE try_formats(_, _, _)
try_formats(t, fs, k) ==
    IF k > Len(fs)
    THEN <<None, None>>
    ELSE LET date_obj == strptime(t, fs[k])
         IN  IF date_obj.ok THEN <<date_obj.Y, date_obj.m>> ELSE try_formats(t, fs, k + 1)

extract_year_month_without_dots(eventDate) ==
    IF isna(eventDate) THEN <<None, None>>
    ELSE try_formats(str(eventDate), formats_without_dots, 1)

extract_year_month(eventDate) ==
    IF isna(eventDate) THEN <<None, None>> ELSE try_formats(str(eventDate), formats, 1)

-----------------------------------------------------------------------------
(* The uploaded tables *)

AllColumns == {"scientificName", "eventDate", "year", "month", "day"}
DateColumns == {"year", "month", "day"}

D2019 == <<"2", "0", "1", "9", "-", "0", "1", "-", "0", "5">>
D2021 == <<"2", "0", "2", "1", "-", "0", "3", "-", "0", "7">>
Unparseable == <<"x">>

\* What pd.read_csv can give for a cell of each column.  An empty field is
\* read as NaN, so no text cell is empty.  The event dates are texts in one
\* format; of the three date columns, year and day may miss a value.
FullRows ==
    [scientificName : {NaN, Str(<<" ", " ">>), Str(<<" ", "a", "b">>)},
     eventDate : {NaN, Str(D2019), Str(D2021), Str(Unparseable)},
     year : {NaN, Num(2021)},
     month : {Num(3)},
     day : {NaN, Num(7)}]

RowsOver(cols) == {[c \in cols |-> r[c]] : r \in FullRows}

Tables ==
    UNION {[columns : {cols}, rows : UNION {[1..k -> RowsOver(cols)] : k \in 0..MaxRows}] :
              cols \in SUBSET AllColumns}

-----------------------------------------------------------------------------
(* Data frame operations *)

any_null(rows, c) == \E i \in 1..Len(rows) : isna(rows[i][c])
all_notna(rows, c) == \A i \in 1..Len(rows) : notna(rows[i][c])

\* df['scientificName'] = df['scientificName'].apply(standardize_species)
apply_standardize_species(rows) ==
    [i \in 1..Len(rows) |->
        [rows[i] EXCEPT !["scientificName"] = standardize_species(rows[i]["scientificName"])]]

keep_all(rows) == rows

\* df.replace("", np.nan)
replace_empty(rows) ==
    [i \in 1..Len(rows) |->
        [c \in DOMAIN rows[i] |->
            IF rows[i][c].kind = "str" /\ rows[i][c].s = <<>> THEN NaN ELSE rows[i][c]]]

\* df[df['scientificName'].notnull()]
drop_unnamed(rows) == SelectSeq(rows, LAMBDA r : notna(r["scientificName"]))

\* lambda x: str(int(x)) if pd.notna(x) else x
year_to_str(x) == IF notna(x) THEN Str(Decimal(x.n)) ELSE x

\* df['year'] = df['year'].apply(lambda ...)
apply_year_to_str(rows) ==
    [i \in 1..Len(rows) |-> [rows[i] EXCEPT !["year"] = year_to_str(rows[i]["year"])]]

\* A numeric column that holds a missing value is a float column, and
\* astype(str) of a float writes its fraction.
IsFloatColumn(c) == any_null(uploaded_file.rows, c)
astype_str(x, c) ==
    IF x.kind = "str" THEN x.s
    ELSE IF IsFloatColumn(c) THEN Decimal(x.n) \o <<".", "0">> ELSE Decimal(x.n)

\* df['year'].astype(str) + '-' + df['month'].astype(str) + '-' + df['day'].astype(str)
reconstruct(r) ==
    Str(astype_str(r["year"], "year") \o <<"-">> \o astype_str(r["month"], "month")
          \o <<"-">> \o astype_str(r["day"], "day"))

\* pd.to_datetime(..., errors='coerce'): each cell becomes a date cell, or
\* NaT (kept as NaN) where its text is no date.
Date(y, m, d) == [kind |-> "date", s |-> <<>>, n |-> 10000 * y + 100 * m + d]

RECURSIVE parse_any(_, _)
parse_any(t, k) ==
    IF k > Len(formats) THEN NoMatch
    ELSE IF strptime(t, formats[k]).ok THEN strptime(t, formats[k])
    ELSE parse_any(t, k + 1)

to_datetime(rows) ==
    LET one(x) == IF isna(x) THEN NaN
                  ELSE LET p == parse_any(str(x), 1)
                       IN  IF p.ok THEN Date(p.Y, p.m, p.d) ELSE NaN
    IN  [i \in 1..Len(rows) |-> [rows[i] EXCEPT !["eventDate"] = one(rows[i]["eventDate"])]]

\* df['eventDate'].dt.year
dt_year(x) == IF isna(x) THEN NaN ELSE Num(x.n \div 10000)

with_year(rows) ==
    [i \in 1..Len(rows) |->
        [c \in (DOMAIN rows[i]) \cup {"year"} |->
            IF c = "year" THEN dt_year(rows[i]["eventDate"]) ELSE rows[i][c]]]

Years(rows) == {rows[i]["year"].n : i \in {j \in 1..Len(rows) : notna(rows[j]["year"])}}
CountOf(rows, y) ==
    Cardinality({i \in 1..Len(rows) : notna(rows[i]["year"]) /\ rows[i]["year"].n = y})

RECURSIVE Ascending(_)
Ascending(S) ==
    IF S = {} THEN <<>>
    ELSE LET lo == CHOOSE x \in S : \A z \in S : x <= z
         IN  <<lo>> \o Ascending(S \ {lo})

Min(S) == CHOOSE x \in S : \A z \in S : x <= z
Max(S) == CHOOSE x \in S : \A z \in S : x >= z

\* A table with a row for every year from the first to the last, zero where
\* no record falls.
value_counts_dense(rows) ==
    IF Years(rows) = {} THEN <<>>
    ELSE [k \in 1..(Max(Years(rows)) - Min(Years(rows)) + 1) |->
            <<Min(Years(rows)) + k - 1, CountOf(rows, Min(Years(rows)) + k - 1)>>]

\* The same over range(first, last), which leaves the last year out.
value_counts_range(rows) ==
    IF Years(rows) = {} THEN <<>>
    ELSE [k \in 1..(Max(Years(rows)) - Min(Years(rows))) |->
            <<Min(Years(rows)) + k - 1, CountOf(rows, Min(Years(rows)) + k - 1)>>]

\* df['year'].value_counts().sort_index(): the missing values are not
\* counted, one row per value that occurs, ascending.
value_counts_sorted(rows) ==
    [k \in 1..Cardinality(Years(rows)) |->
        <<Ascending(Years(rows))[k], CountOf(rows, Ascending(Years(rows))[k])>>]

-----------------------------------------------------------------------------
(* The script run on an uploaded file *)

Shown(e) == \E i \in 1..Len(out) : out[i] = e

PipeIdle ==
    /\ uploaded_file = NoFile
    /\ df = <<>>
    /\ columns = {}
    /\ error = FALSE
    /\ yearly_counts = NoTable
    /\ out = <<>>
    /\ exc = "none"
    /\ pc = "idle"

NameIdle ==
    /\ name_in = NaN
    /\ name_out = NaN
    /\ name_twice = NaN
    /\ spc = "unused"

DateIdle ==
    /\ date_in = NaN
    /\ ym_out = <<None, None>>
    /\ dpc = "unused"

\* st.file_uploader returns a file
Upload ==
    /\ pc = "idle"
    /\ \E t \in Tables : uploaded_file' = t
    /\ pc' = "uploaded"
    /\ UNCHANGED <<df, columns, error, yearly_counts, out, exc>>
    /\ UNCHANGED <<nameVars, dateVars>>

\* pd.read_csv, the species names standardised, "" replaced by NaN, the rows
\* without a name removed, the year written as text, st.write(df)
Normalize ==
    /\ pc = "uploaded"
    /\ columns' = uploaded_file.columns
    /\ IF "scientificName" \notin uploaded_file.columns
       THEN /\ df' = uploaded_file.rows
            /\ exc' = "KeyError"
            /\ pc' = "raised"
            /\ out' = out
       ELSE LET named == drop_unnamed(replace_empty(
                             apply_standardize_species(uploaded_file.rows)))
            IN  IF "year" \notin uploaded_file.columns
                THEN /\ df' = named
                     /\ exc' = "KeyError"
                     /\ pc' = "raised"
                     /\ out' = out
                ELSE /\ df' = apply_year_to_str(named)
                     /\ exc' = exc
                     /\ pc' = "normalized"
                     /\ out' = Append(out, "write_df")
    /\ UNCHANGED <<uploaded_file, error, yearly_counts>>
    /\ UNCHANGED <<nameVars, dateVars>>

\* The check of the rows without eventDate
Validate ==
    /\ pc = "normalized"
    /\ IF "eventDate" \notin columns
       THEN /\ exc' = "KeyError"
            /\ pc' = "raised"
            /\ UNCHANGED <<df, columns, error, out>>
       ELSE /\ exc' = exc
            /\ pc' = "validated"
            /\ IF any_null(df, "eventDate")
               THEN /\ error' = TRUE
                    /\ IF DateColumns \subseteq columns
                       THEN IF \E c \in DateColumns : any_null(df, c)
                            THEN /\ out' = out \o <<"warning_eventDate", "warning_missing_values">>
                                 /\ UNCHANGED <<df, columns>>
                            ELSE /\ out' = Append(out, "warning_eventDate")
                                 /\ df' = [i \in 1..Len(df) |->
                                             [c \in (DOMAIN df[i]) \ DateColumns |->
                                                 IF c = "eventDate" THEN reconstruct(df[i])
                                                 ELSE df[i][c]]]
                                 /\ columns' = columns \ DateColumns
                       ELSE /\ out' = out \o <<"warning_eventDate", "warning_missing_columns">>
                            /\ UNCHANGED <<df, columns>>
               ELSE UNCHANGED <<df, columns, error, out>>
    /\ UNCHANGED <<uploaded_file, yearly_counts>>
    /\ UNCHANGED <<nameVars, dateVars>>

gate_open == TRUE

\* if not error:
not_error == error = FALSE

\* The event dates parsed and their years counted, when the flag is not set
Aggregate ==
    /\ pc = "validated"
    /\ not_error
    /\ df' = with_year(to_datetime(df))
    /\ yearly_counts' = value_counts_sorted(with_year(to_datetime(df)))
    /\ columns' = columns \cup {"year"}
    /\ pc' = "aggregated"
    /\ UNCHANGED <<uploaded_file, error, out, exc>>
    /\ UNCHANGED <<nameVars, dateVars>>

\* The flag is set: the run ends
SkipAggregate ==
    /\ pc = "validated"
    /\ ~not_error
    /\ pc' = "done"
    /\ UNCHANGED <<uploaded_file, df, columns, error, yearly_counts, out, exc>>
    /\ UNCHANGED <<nameVars, dateVars>>

\* The bar chart and the table of the counts; max() of no counts raises
Chart ==
    /\ pc = "aggregated"
    /\ IF yearly_counts = <<>>
       THEN /\ out' = out \o <<"title", "write_caption">>
            /\ exc' = "ValueError"
            /\ pc' = "raised"
       ELSE /\ out' = out \o <<"title", "write_caption", "plotly_chart", "write_table",
                               "dataframe">>
            /\ exc' = exc
            /\ pc' = "done"
    /\ UNCHANGED <<uploaded_file, df, columns, error, yearly_counts>>
    /\ UNCHANGED <<nameVars, dateVars>>

Init == PipeIdle /\ NameIdle /\ DateIdle

Next == Upload \/ Normalize \/ Validate \/ Aggregate \/ SkipAggregate \/ Chart

Spec == Init /\ [][Next]_vars

-----------------------------------------------------------------------------
(* standardize_species applied to a name, and to its result *)

NameAlphabet == {" ", "a", "B", "-"}

NameInputs ==
    {NaN} \cup {Str(t) : t \in UNION {[1..k -> NameAlphabet] : k \in 0..MaxNameLen}}

InitSpecies ==
    /\ PipeIdle
    /\ DateIdle
    /\ name_in \in NameInputs
    /\ name_out = NaN
    /\ name_twice = NaN
    /\ spc = "in"

Standardize ==
    /\ spc = "in"
    /\ name_out' = standardize_species(name_in)
    /\ spc' = "once"
    /\ UNCHANGED <<name_in, name_twice, pipeVars, dateVars>>

StandardizeAgain ==
    /\ spc = "once"
    /\ name_twice' = standardize_species(name_out)
    /\ spc' = "twice"
    /\ UNCHANGED <<name_in, name_out, pipeVars, dateVars>>

NextSpecies == Standardize \/ StandardizeAgain

SpecSpecies == InitSpecies /\ [][NextSpecies]_vars

-----------------------------------------------------------------------------
(* extract_year_month applied to a value *)

Pad2(k) == IF k < 10 THEN <<"0">> \o Decimal(k) ELSE Decimal(k)

\* strftime of a date in each of the four patterns
Render(y, m, d, k) ==
    CASE k = 1 -> Decimal(y) \o <<"-">> \o Pad2(m) \o <<"-">> \o Pad2(d)
      [] k = 2 -> Decimal(y) \o <<"/">> \o Pad2(m) \o <<"/">> \o Pad2(d)
      [] k = 3 -> Decimal(y) \o Pad2(m) \o Pad2(d)
      [] k = 4 -> Decimal(y) \o <<".">> \o Pad2(m) \o <<".">> \o Pad2(d)

SampleYears == {2019, 2020}

\* The dates of the sample years, written in each of the four patterns
Written ==
    {[t |-> Render(w[1], w[2], w[3], w[4]), y |-> w[1], m |-> w[2], d |-> w[3]] :
        w \in {v \in SampleYears \X (1..12) \X (1..31) \X (1..4) :
                  v[3] <= DaysInMonth(v[1], v[2])}}

\* Texts put together from a year, a month and a day as they are found in
\* exports: other separators, no padding, numbers out of range, more text.
Assembled ==
    {y \o a \o m \o b \o d \o e :
        y \in {<<"2", "0", "1", "9">>, <<"2", "0", "2", "0">>, <<"0", "0", "0", "0">>,
               <<"2", "0">>},
        a \in {<<>>, <<"-">>, <<"/">>, <<".">>},
        m \in {<<"0", "2">>, <<"2">>, <<"1", "1">>, <<"1", "3">>, <<"1">>},
        b \in {<<>>, <<"-">>, <<"/">>, <<".">>},
        d \in {<<"2", "9">>, <<"5">>, <<"0", "5">>, <<"3", "1">>, <<" ", "5">>, <<"1">>},
        e \in {<<>>, <<"x">>}}

DateInputs ==
    {NaN, Str(<<>>), Str(<<"x">>), Num(20190105), Num(20201231), Num(2019), Num(0)}
    \cup {Str(w.t) : w \in Written}
    \cup {Str(t) : t \in Assembled}

InitDates ==
    /\ PipeIdle
    /\ NameIdle
    /\ date_in \in DateInputs
    /\ ym_out = <<None, None>>
    /\ dpc = "in"

ExtractYearMonth ==
    /\ dpc = "in"
    /\ ym_out' = extract_year_month(date_in)
    /\ dpc' = "out"
    /\ UNCHANGED <<date_in, pipeVars, nameVars>>

NextDates == ExtractYearMonth

SpecDates == InitDates /\ [][NextDates]_vars

-----------------------------------------------------------------------------
(* Properties of the script run *)

Terminal == pc \in {"done", "raised"}
ValidatorFinished == pc \in {"validated", "aggregated", "done"} \/ (pc = "raised" /\ exc = "ValueError")
ChartShown == Shown("plotly_chart")
TableMade == yearly_counts # NoTable

\* The rows of the uploaded file that carry a species name
HasName(r) ==
    /\ "scientificName" \in DOMAIN r
    /\ notna(r["scientificName"])
    /\ \E i \in 1..Len(r["scientificName"].s) : r["scientificName"].s[i] \notin Whitespace
Named == SelectSeq(uploaded_file.rows, HasName)
Unnamed == SelectSeq(uploaded_file.rows, LAMBDA r : ~HasName(r))
FileHas(cols) == pc # "idle" /\ cols \subseteq uploaded_file.columns

\* The year of the event date of a row of the data frame after aggregation
HasEventYear(r) == r["eventDate"].kind = "date"
EventYear(r) == r["eventDate"].n \div 10000
EventYears == {EventYear(df[i]) : i \in {j \in 1..Len(df) : HasEventYear(df[j])}}

\* C1: the yearly table and the chart are made only after the validator has
\* finished with the error flag false; while the flag is true, and before the
\* validator has finished, there is neither a table nor a chart.
C1_AggregationOnlyWhenValid ==
    /\ TableMade => (ValidatorFinished /\ pc # "validated" /\ error = FALSE
                      /\ ~Shown("warning_eventDate"))
    /\ ChartShown => TableMade
    /\ Shown("dataframe") => TableMade
    /\ error = TRUE => (~TableMade /\ ~ChartShown)
    /\ pc \in {"idle", "uploaded", "normalized", "validated"} => (~TableMade /\ ~ChartShown)

C1_Witness ==
    /\ pc = "done"
    /\ error = FALSE
    /\ TableMade
    /\ ChartShown

\* C2: when a row that is kept has no eventDate and every row has year, month
\* and day, the validator ends with the error flag false and aggregation runs.
C2_ReconstructedIsValid ==
    (/\ ValidatorFinished
     /\ FileHas(AllColumns)
     /\ any_null(Named, "eventDate")
     /\ \A c \in DateColumns : all_notna(uploaded_file.rows, c))
    => (error = FALSE /\ (Terminal => TableMade))

\* C3: when a row that is kept has no eventDate and the file has none of the
\* year, month and day columns, the run ends without an exception, with the
\* error flag true, a warning shown and nothing aggregated.
C3_MissingColumnsInvalid ==
    (/\ Terminal
     /\ FileHas({"scientificName", "eventDate"})
     /\ uploaded_file.columns \cap DateColumns = {}
     /\ any_null(Named, "eventDate"))
    => (/\ pc = "done"
        /\ exc = "none"
        /\ error = TRUE
        /\ Shown("warning_eventDate")
        /\ ~TableMade)

\* C4: when a row that is kept has an eventDate that is no date, and no year,
\* month and day to build one from, a run that ends has the error flag true
\* and has made neither the table nor the chart.
C4_UnparseableDateInvalid ==
    (/\ pc = "done"
     /\ FileHas(AllColumns)
     /\ \E i \in 1..Len(Named) :
           /\ notna(Named[i]["eventDate"])
           /\ ~parse_any(str(Named[i]["eventDate"]), 1).ok
           /\ \E c \in DateColumns : isna(Named[i][c]))
    => (error = TRUE /\ ~TableMade /\ ~ChartShown)

\* C5: the yearly table has exactly one row for each year in which the event
\* date of a kept record falls, the row's value is the number of those
\* records, the years ascend strictly, and no other year has a row.
C5_YearlyCountsExact ==
    TableMade =>
        /\ {yearly_counts[k][1] : k \in 1..Len(yearly_counts)} = EventYears
        /\ \A k \in 1..Len(yearly_counts) :
              yearly_counts[k][2] =
                  Cardinality({i \in 1..Len(df) :
                                  HasEventYear(df[i]) /\ EventYear(df[i]) = yearly_counts[k][1]})
        /\ \A k \in 1..(Len(yearly_counts) - 1) : yearly_counts[k][1] < yearly_counts[k + 1][1]
        /\ \A k \in 1..Len(yearly_counts) : yearly_counts[k][2] >= 1

C5_Witness ==
    /\ TableMade
    /\ Len(df) = 2
    /\ HasEventYear(df[1])
    /\ HasEventYear(df[2])
    /\ EventYear(df[1]) > EventYear(df[2]) + 1
    /\ Len(yearly_counts) = 2

\* C6: a file with a header and no rows is processed to the end without an
\* exception, and no chart is shown.
C6_EmptyFileCompletes ==
    (Terminal /\ FileHas(AllColumns) /\ uploaded_file.rows = <<>>)
    => (pc = "done" /\ exc = "none" /\ df = <<>> /\ ~ChartShown)

C8_UnnamedRowsExcluded ==
    /\ pc \in {"normalized", "validated", "aggregated", "done"} =>
          /\ Len(df) = Len(Named)
          /\ \A i \in 1..Len(df) :
                /\ df[i]["scientificName"].kind = "str"
                /\ df[i]["scientificName"].s # <<>>
                /\ \E j \in 1..Len(df[i]["scientificName"].s) :
                      df[i]["scientificName"].s[j] \notin Whitespace
    /\ pc \in {"validated", "aggregated", "done"} =>
          (error = TRUE <=> any_null(Named, "eventDate"))
    /\ TableMade =>
          \A k \in 1..Len(yearly_counts) :
              yearly_counts[k][2] <=
                  Cardinality({i \in 1..Len(Named) :
                                  /\ notna(Named[i]["eventDate"])
                                  /\ parse_any(str(Named[i]["eventDate"]), 1).ok
                                  /\ parse_any(str(Named[i]["eventDate"]), 1).Y
                                        = yearly_counts[k][1]})

C8_Witness ==
    /\ pc = "done"
    /\ FileHas(AllColumns)
    /\ ChartShown
    /\ error = FALSE
    /\ Len(Named) = 1
    /\ \E i \in 1..Len(Unnamed) :
          /\ notna(Unnamed[i]["scientificName"])
          /\ isna(Unnamed[i]["eventDate"])
          /\ isna(Unnamed[i]["year"])
          /\ isna(Unnamed[i]["day"])

-----------------------------------------------------------------------------
(* Properties of extract_year_month *)

AllDigits(t) == \A i \in 1..Len(t) : IsDigit(t[i])

RECURSIVE Value(_)
Value(t) == IF t = <<>> THEN 0 ELSE 10 * Value(SubSeq(t, 1, Len(t) - 1)) + DigitVal(t[Len(t)])

\* A text that strptime accepts under one of the four formats: four digits
\* of a year from 1 on, a month of one or two digits, a day of one or two
\* digits (or a space and a digit), a day the month has, and the format's
\* separator between them.
Accepted(t) ==
    \E sep \in {<<>>, <<"-">>, <<"/">>, <<".">>}, ml \in 1..2, dl \in 1..2 :
        /\ Len(t) = 4 + ml + dl + 2 * Len(sep)
        /\ LET Y == SubSeq(t, 1, 4)
               a == SubSeq(t, 5, 4 + Len(sep))
               M == SubSeq(t, 5 + Len(sep), 4 + Len(sep) + ml)
               b == SubSeq(t, 5 + Len(sep) + ml, 4 + 2 * Len(sep) + ml)
               D == SubSeq(t, 5 + 2 * Len(sep) + ml, Len(t))
               Dd == IF dl = 2 /\ D[1] = " " THEN Tail(D) ELSE D
           IN  /\ a = sep
               /\ b = sep
               /\ AllDigits(Y)
               /\ Value(Y) >= 1
               /\ AllDigits(M)
               /\ Value(M) \in 1..12
               /\ AllDigits(Dd)
               /\ Value(Dd) \in 1..DaysInMonth(Value(Y), Value(M))

-----------------------------------------------------------------------------
(* Properties of standardize_species *)

IsTitleCase(t) ==
    \A i \in 1..Len(t) :
        IsCased(t[i]) =>
            IF i > 1 /\ IsCased(t[i - 1]) THEN IsLower(t[i]) ELSE IsUpper(t[i])

Leading(t) == Cardinality({i \in 1..Len(t) : \A j \in 1..i : t[j] \in Whitespace})
Trailing(t) == Cardinality({i \in 1..Len(t) : \A j \in i..Len(t) : t[j] \in Whitespace})

\* C10: standardize_species applied twice gives what it gives applied once; a
\* name that is present comes back without the whitespace around it and in
\* title case, with the same letters; a missing name comes back as it is.
C10_StandardizeIdempotent ==
    /\ spc = "twice" => name_twice = name_out
    /\ (spc \in {"once", "twice"} /\ isna(name_in)) => name_out = name_in
    /\ (spc \in {"once", "twice"} /\ notna(name_in)) =>
          LET t == name_out.s
              u == name_in.s
              lead == IF Leading(u) = Len(u) THEN 0 ELSE Leading(u)
          IN  /\ name_out.kind = "str"
              /\ t = <<>> \/ (t[1] \notin Whitespace /\ t[Len(t)] \notin Whitespace)
              /\ IsTitleCase(t)
              /\ Len(t) = IF Leading(u) = Len(u) THEN 0 ELSE Len(u) - Leading(u) - Trailing(u)
              /\ \A i \in 1..Len(t) : lower(t[i]) = lower(u[lead + i])

C10_Witness ==
    /\ spc = "twice"
    /\ name_in = Str(<<" ", "a", "B", " ">>)
    /\ name_out = Str(<<"A", "b">>)
    /\ name_twice = name_out

====
